---- MODULE Spec2Model ----
(***************************************************************************)
(* Delayed vessel reporter: the carrier pipelines of delay_report.py        *)
(* (DelayReport.run / run_g2 over the eight extractors), the response       *)
(* cache under responses/<today>/, the merge back into the master sheet     *)
(* and the delta / BOL-mask stage.                                          *)
(*                                                                         *)
(* Representation.  A nullable cell (NaN / NaT / None in a date or number   *)
(* column) is the empty tuple NaT, a present value v is <<v>>.  A planned   *)
(* date is a day number; a carrier timestamp is counted in DayUnits-ths of  *)
(* a day, so that truncation to a date and Timedelta.days are real          *)
(* conversions.  Port names are strings, None is a missing name.           *)
(***************************************************************************)
EXTENDS Integers, Sequences, FiniteSets, TLC

\* ------------------------------------------------------------------ bounds
NRows == 2          \* shipment lines in the master sheet
DayUnits == 2       \* time-of-day resolution of a carrier timestamp
MaxFaults == 1      \* failed, empty, error or unresolved answers of the remote per day

\* ------------------------------------------------------- nullable values
NaT == <<>>
None == "None"
Some(v) == <<v>>
IsNull(x) == x = NaT
Val(x) == x[1]

\* ------------------------------------------------------------- date model
At(day, tod) == day * DayUnits + tod
\* pd.to_datetime of a '%d/%m/%Y' string: midnight of that day
ToDatetime(d) == IF IsNull(d) THEN NaT ELSE Some(At(Val(d), 0))
\* Series.dt.strftime('%d/%m/%Y'): the calendar day of a timestamp
Strftime(t) == IF IsNull(t) THEN NaT ELSE Some(Val(t) \div DayUnits)
\* .str[:10] / .str[:8] followed by pd.to_datetime: the date part only
DatePart(t) == IF IsNull(t) THEN NaT ELSE Some((Val(t) \div DayUnits) * DayUnits)
\* (a - b).dt.days : whole days of a Timedelta, floored; null if either is
DaysWrong(a, b) == IF IsNull(a) \/ IsNull(b) THEN Some(0)
                   ELSE Some((Val(a) - Val(b)) \div DayUnits)
Days(a, b) == IF IsNull(a) \/ IsNull(b) THEN NaT
              ELSE Some((Val(a) - Val(b)) \div DayUnits)

\* ---------------------------------------------------------------- carriers
\* the run calls with COSCO ahead of ONE
CarriersCoscoFirst == <<"COSCO", "ONE", "CMA", "ANL", "Hamburg", "OOCL", "MSC">>
\* the order of the run calls of __main__
Carriers == <<"ONE", "COSCO", "CMA", "ANL", "Hamburg", "OOCL", "MSC">>
NumCarriers == Len(Carriers)
\* the carrier name each extractor compares carrier_mapping values with
Family(c) == IF c = "Hamburg" THEN "HAMBURG" ELSE c
Families == {"ONE", "COSCO", "CMA", "ANL", "HAMBURG", "OOCL"}
\* extractors with a remote location lookup (get_location_id overridden)
HasLocationId(c) == c \in {"CMA", "ANL", "OOCL", "MSC"}
\* extractors whose reduced_df key carries the raw port codes pol / pod
KeyHasPorts(c) == c \in {"COSCO", "OOCL", "MSC"}
\* windows of one route: range(1, 30, 7) for Hamburg, one query otherwise
HamburgWindows == <<1, 8, 15, 22, 29>>
Windows(c) == IF c = "Hamburg" THEN HamburgWindows ELSE <<0>>

\* --------------------------------------------------------- static inputs
FwdAgents == {"AGENT", "MSC", "G2OCEAN"}
\* 'Port Code Mapping - <carrier>.xlsx': Port Code -> Port Name; port D has
\* no row, B and C share a port name
port_mapping == [p \in {"A", "B", "C"} |->
                   IF p = "A" THEN "NA" ELSE "NB"]
Ports == {"A", "B", "C", "D"}
Names == {"A", "B", "C", "D", "NA", "NB", None}
\* sort order of the strings that occur in key columns
Rank(s) == CASE s = "" -> 0
             [] s = "A" -> 1 [] s = "B" -> 2 [] s = "C" -> 3 [] s = "D" -> 4
             [] s = "NA" -> 5 [] s = "NB" -> 6
             [] s = "idA" -> 11 [] s = "idB" -> 12 [] s = "idC" -> 13
             [] s = "idD" -> 14 [] s = "idNA" -> 15 [] s = "idNB" -> 16
             [] OTHER -> 99
\* the identifier the remote location search knows a name by
LocationID(n) == CASE n = "A" -> "idA" [] n = "B" -> "idB" [] n = "C" -> "idC"
                   [] n = "D" -> "idD" [] n = "NA" -> "idNA" [] n = "NB" -> "idNB"
                   [] OTHER -> None
\* COSCO 'Port Number' column of the crosswalk
PortNumber(p) == LocationID(port_mapping[p])

\* planned dates of every line, and the bill-of-lading date when shipped
\* Configurations.xlsx: randomiser_lower_interval, randomiser_upper_interval
LowerInterval == 2
UpperInterval == 3
PlannedETD == 10
PlannedETA == 18
BolDay == 11

\* ------------------------------------------------------------- sequences
Range(s) == {s[k] : k \in DOMAIN s}
Last(s) == s[Len(s)]
RECURSIVE Flatten(_)
Flatten(ss) == IF ss = <<>> THEN <<>> ELSE Head(ss) \o Flatten(Tail(ss))
\* lexicographic order of two tuples of ranks
RECURSIVE LexLess(_, _)
LexLess(a, b) ==
    IF a = <<>> \/ b = <<>> THEN FALSE
    ELSE IF Head(a) # Head(b) THEN Head(a) < Head(b)
         ELSE LexLess(Tail(a), Tail(b))
\* DataFrame.drop_duplicates(key): of the rows s with key values ks, the
\* first row of every key value is kept
RECURSIVE KeepFirst(_, _, _)
KeepFirst(s, ks, k) ==
    IF k > Len(s) THEN <<>>
    ELSE (IF \E j \in 1..(k - 1) : ks[j] = ks[k] THEN <<>> ELSE <<s[k]>>)
         \o KeepFirst(s, ks, k + 1)
\* every element kept
KeepAll(s, ks) == s
DropDuplicates(s, ks) == KeepFirst(s, ks, 1)
\* DataFrame.sort_values(key): stable ascending sort of the row positions
RECURSIVE InsertIdx(_, _, _)
InsertIdx(i, p, ks) ==
    IF p = <<>> THEN <<i>>
    ELSE IF LexLess(ks[i], ks[Head(p)]) THEN <<i>> \o p
         ELSE <<Head(p)>> \o InsertIdx(i, Tail(p), ks)
RECURSIVE SortPerm(_, _)
SortPerm(n, ks) == IF n = 0 THEN <<>> ELSE InsertIdx(n, SortPerm(n - 1, ks), ks)
SortValues(s, ks) == LET p == SortPerm(Len(s), ks) IN [k \in 1..Len(s) |-> s[p[k]]]

\* ------------------------------------------------------------------ state
VARIABLES
    config,             \* DelayReport.config: run_<carrier> flags, mask flag
    carrier_mapping,    \* DelayReport.carrier_mapping: Fwd Agent -> Carrier
    main_delay_sheet,   \* DelayReport.main_delay_sheet: index -> row
    clean_delay_sheet,  \* DelayReport.clean_delay_sheet
    files,              \* responses/<today>/ : cached schedule responses by name
    port_files,         \* responses/<today>/ : '<carrier> portID.json' by carrier
    exception_files,    \* responses/<today>/ : '<carrier>_exceptions.txt' by carrier
    pc,                 \* position of the run: carrier number and stage
    ext,                \* the extractor of the carrier being run
    i,                  \* call_api: position in the planned queries
    requests,           \* network requests issued by this run, in order
    sleeps,             \* time.sleep calls of this run: how many, seconds of the last
    faults,             \* failed / empty / error / unresolved answers received today
    last_run,           \* how the previous run of this day ended, "none" before the first
    cwd,                \* the working directory of the process
    today,              \* the calendar date of the run
    query_dates         \* the dates a carrier's get_schedules last built

vars == <<config, carrier_mapping, main_delay_sheet, clean_delay_sheet, files,
          port_files, exception_files, pc, ext, i, requests, sleeps, faults,
          last_run, cwd, today, query_dates>>

Index == 0..(NRows - 1)
Routes == {<<"A", "B">>, <<"A", "C">>, <<"B", "A">>, <<"A", "D">>}

\* the vessel of a line: G2's booking on route A-C sails on V3, a vessel the
\* G2 schedule has no column for; every other line sails on V1
RowVessel(fwd, route) ==
    IF fwd = "G2OCEAN" /\ route = <<"A", "C">> THEN "V3" ELSE "V1"

\* a row of the tracking sheet as DelayReport.__init__ leaves it: the five
\* new columns are null
NewRow(fwd, route, bol) ==
    [fwd |-> fwd, pol |-> route[1], pod |-> route[2],
     Vessel |-> RowVessel(fwd, route), Voyage |-> "001",
     etd_date |-> Some(PlannedETD), disport_eta |-> Some(PlannedETA),
     bol_date |-> bol,
     updated_etd |-> NaT, updated_eta |-> NaT,
     days_etd |-> NaT, days_eta |-> NaT, reason |-> NaT]

\* BaseExtractor.__init__: an extractor before its constructor has run
NoExtractor ==
    [delay_sheet |-> <<>>, port_id |-> <<>>, reduced_df |-> <<>>,
     response_jsons |-> <<>>, response_df |-> <<>>]

\* the lines the sheet may hold at row k when the agent books with family m:
\* row 0 is on route A-B and may have been shipped, row 1 is on any route
\* (on A-B with Hamburg, whose every route costs one request per window),
\* and any further row repeats the agent's booking on route A-B
RowAgents(k) == IF k < 2 THEN FwdAgents ELSE {"AGENT"}
RowRoutes(m, k) == IF k = 1 /\ m # "HAMBURG" THEN Routes ELSE {<<"A", "B">>}
RowBol(k) == IF k = 0 THEN {NaT, Some(BolDay)} ELSE {NaT}
Sheets(m) ==
    {[k \in Index |-> NewRow(fwd[k], route[k], bol[k])] :
        fwd \in {f \in [Index -> FwdAgents] : \A k \in Index : f[k] \in RowAgents(k)},
        route \in {f \in [Index -> Routes] : \A k \in Index : f[k] \in RowRoutes(m, k)},
        bol \in {f \in [Index -> {NaT, Some(BolDay)}] : \A k \in Index : f[k] \in RowBol(k)}}

\* Configurations.xlsx: the carrier the agent books with, MSC and G2 are
\* run, or nothing is
AllCarriers == Range(Carriers) \cup {"G2"}
RunFlags(m) ==
    {[c \in AllCarriers |-> Family(c) = m \/ c \in {"MSC", "G2"}],
     [c \in AllCarriers |-> FALSE]}

\* os.chdir(path) from the directory the script was started in
Chdir(dir, path) == path
\* Path('responses/' + today), the directory of the day's files
TodayPath == "responses/today"
\* the day the runs of the model take place on
RunDay == [leap |-> FALSE, month |-> 6, day |-> 15]

\* no time.sleep call yet
NoSleep == [calls |-> 0, seconds |-> 0]

Init ==
    /\ \E m \in Families, mask \in BOOLEAN : \E run \in RunFlags(m) :
         /\ carrier_mapping = [a \in {"AGENT"} |-> m]
         /\ config = [run |-> run, mask_date_if_bol_present |-> mask,
                      randomiser_lower_interval |-> LowerInterval,
                      randomiser_upper_interval |-> UpperInterval]
         /\ main_delay_sheet \in Sheets(m)
    /\ clean_delay_sheet = main_delay_sheet
    /\ files = <<>>
    /\ port_files = <<>>
    /\ exception_files = <<>>
    /\ pc = [k |-> 1, stage |-> "run"]
    /\ ext = NoExtractor
    /\ i = 0
    /\ requests = <<>>
    /\ sleeps = NoSleep
    /\ faults = 0
    /\ last_run = "none"
    /\ cwd = Chdir("root", TodayPath)
    /\ today = RunDay
    /\ query_dates = <<>>

\* ------------------------------------------------- extractor constructors
\* the Fwd Agent values the extractor of carrier c selects
FilterTags(c) ==
    IF c = "MSC" THEN {"MSC"}
    ELSE IF c = "G2" THEN {"G2OCEAN"}
    ELSE {a \in DOMAIN carrier_mapping : carrier_mapping[a] = Family(c)}

\* Series.replace(port_mapping): mapped codes are renamed, others are kept
Replace(p) == IF p \in DOMAIN port_mapping THEN port_mapping[p] ELSE p
\* port_mapping.get(y): None for a port without a row
Get(p) == IF p \in DOMAIN port_mapping THEN port_mapping[p] ELSE None

PolName(c, p) == IF c \in {"ONE", "CMA", "ANL", "Hamburg"} THEN p ELSE Get(p)
PodName(c, p) == IF c \in {"ONE", "CMA", "ANL", "Hamburg"} THEN Replace(p) ELSE Get(p)

\* positions of the sheet rows selected by a predicate, ascending
RECURSIVE IndexSeq(_, _)
IndexSeq(S, k) ==
    IF k >= NRows THEN <<>>
    ELSE (IF k \in S THEN <<k>> ELSE <<>>) \o IndexSeq(S, k + 1)

\* main_delay_sheet.query("`Fwd Agent` in [...]").drop(new columns).assign(
\* pol_name, pod_name): the extractor's delay_sheet, one record per line
Line(c, sheet, k) ==
    [index |-> k, fwd |-> sheet[k].fwd, pol |-> sheet[k].pol, pod |-> sheet[k].pod,
     Vessel |-> sheet[k].Vessel, Voyage |-> sheet[k].Voyage,
     etd_date |-> sheet[k].etd_date, disport_eta |-> sheet[k].disport_eta,
     bol_date |-> sheet[k].bol_date,
     pol_name |-> PolName(c, sheet[k].pol), pod_name |-> PodName(c, sheet[k].pod),
     updated_etd |-> NaT, updated_eta |-> NaT]

Filter(c, sheet) == {k \in Index : sheet[k].fwd \in FilterTags(c)}

DelaySheet(c, sheet) ==
    LET ks == IndexSeq(Filter(c, sheet), 0)
    IN [n \in 1..Len(ks) |-> Line(c, sheet, ks[n])]

\* COSCOExtractor.__init__ subscripts port_mapping.get(y): TypeError on None
ConstructorRaises(c, sheet) ==
    /\ c = "COSCO"
    /\ \E k \in Filter(c, sheet) :
          sheet[k].pol \notin DOMAIN port_mapping \/ sheet[k].pod \notin DOMAIN port_mapping

Crashed == [k |-> 0, stage |-> "crashed"]

\* DelayReport.run, first part: the config test and the extractor constructor
Construct ==
    /\ pc.stage = "run" /\ pc.k \in 1..NumCarriers
    /\ config.run[Carriers[pc.k]]
    /\ ~ConstructorRaises(Carriers[pc.k], clean_delay_sheet)
    /\ ext' = [NoExtractor EXCEPT
                 !.delay_sheet = DelaySheet(Carriers[pc.k], clean_delay_sheet)]
    /\ pc' = [pc EXCEPT !.stage = "get_location_id"]
    /\ UNCHANGED <<cwd, today, query_dates,
                   config, carrier_mapping, main_delay_sheet, clean_delay_sheet,
                   files, port_files, exception_files, i, requests, sleeps,
                   faults, last_run>>

ConstructRaise ==
    /\ pc.stage = "run" /\ pc.k \in 1..NumCarriers
    /\ config.run[Carriers[pc.k]]
    /\ ConstructorRaises(Carriers[pc.k], clean_delay_sheet)
    /\ pc' = Crashed
    /\ UNCHANGED <<cwd, today, query_dates,
                   config, carrier_mapping, main_delay_sheet, clean_delay_sheet,
                   files, port_files, exception_files, ext, i, requests, sleeps,
                   faults, last_run>>

\* DelayReport.run when run_<carrier> is off: nothing happens
Skip ==
    /\ pc.stage = "run" /\ pc.k \in 1..NumCarriers
    /\ ~config.run[Carriers[pc.k]]
    /\ pc' = IF pc.k < NumCarriers THEN [k |-> pc.k + 1, stage |-> "run"]
             ELSE [k |-> NumCarriers + 1, stage |-> "run_g2"]
    /\ UNCHANGED <<cwd, today, query_dates,
                   config, carrier_mapping, main_delay_sheet, clean_delay_sheet,
                   files, port_files, exception_files, ext, i, requests, sleeps,
                   faults, last_run>>

\* -------------------------------------------------------- get_location_id
\* list(pol_name.unique()) + list(pod_name.unique())
Unique(s) == DropDuplicates(s, s)
Column(ds, f) == [n \in 1..Len(ds) |-> ds[n][f]]
Locations(ds) == Unique(Column(ds, "pol_name")) \o Unique(Column(ds, "pod_name"))

\* write_json of the port_id dict: the file holds a JSON object, whose keys
\* are strings; a None key is written as 'null'
JsonKey(n) == IF n = None THEN "null" ELSE n
\* a writer that leaves out the names without a code
WriteJsonResolved(d) ==
    [n \in {JsonKey(m) : m \in {x \in DOMAIN d : d[x] # None}} |->
        d[CHOOSE m \in DOMAIN d : JsonKey(m) = n]]
WriteJson(d) ==
    [n \in {JsonKey(m) : m \in DOMAIN d} |->
        d[CHOOSE m \in DOMAIN d : JsonKey(m) = n]]
\* read_config: json.load gives the object of the file, keys as written
ReadConfigNothing(f) == <<>>
ReadConfig(f) == [n \in DOMAIN f |-> f[n]]

\* the port_id dict built from the answers: the names in missing got no hit
PortId(locs, missing) ==
    [n \in Range(locs) |-> IF n \in missing \/ n = None THEN None ELSE LocationID(n)]

\* exception_cases: the names whose port_id is None, in dict order
ExceptionCases(locs, d) == SelectSeq(Unique(locs), LAMBDA n : d[n] = None)

\* whether the portID file is written: if len(self.port_id)
PortFileNever(locs) == FALSE
PortFileWritten(locs) == locs # <<>>

\* get_location_id of CMA, ANL, OOCL, MSC without a portID file: one lookup
\* per entry of the location list, then the files are written
GetLocationIdFetch ==
    /\ pc.stage = "get_location_id"
    /\ HasLocationId(Carriers[pc.k])
    /\ Carriers[pc.k] \notin DOMAIN port_files
    /\ LET c == Carriers[pc.k]
           locs == Locations(ext.delay_sheet)
       IN \E missing \in SUBSET (Range(locs) \ {None}) :
            /\ faults + Cardinality(missing) <= MaxFaults
            /\ LET d == PortId(locs, missing)
                   ex == ExceptionCases(locs, d)
               IN /\ ext' = [ext EXCEPT !.port_id = d]
                  /\ port_files' = IF PortFileWritten(locs)
                                   THEN (c :> WriteJson(d)) @@ port_files
                                   ELSE port_files
                  /\ exception_files' = IF ex # <<>> THEN (c :> ex) @@ exception_files
                                        ELSE exception_files
                  /\ requests' = requests \o [n \in 1..Len(locs) |-> <<"location", c, locs[n]>>]
                  /\ faults' = faults + Cardinality(missing)
    /\ pc' = [pc EXCEPT !.stage = "prepare"]
    /\ UNCHANGED <<cwd, today, query_dates,
                   config, carrier_mapping, main_delay_sheet, clean_delay_sheet,
                   files, i, sleeps, last_run>>

\* a lookup raises (transport error, undecodable body): nothing is written
GetLocationIdRaise ==
    /\ pc.stage = "get_location_id"
    /\ HasLocationId(Carriers[pc.k])
    /\ Carriers[pc.k] \notin DOMAIN port_files
    /\ Locations(ext.delay_sheet) # <<>>
    /\ requests' = Append(requests, <<"location", Carriers[pc.k],
                                      Locations(ext.delay_sheet)[1]>>)
    /\ faults < MaxFaults
    /\ faults' = faults + 1
    /\ pc' = Crashed
    /\ UNCHANGED <<cwd, today, query_dates,
                   config, carrier_mapping, main_delay_sheet, clean_delay_sheet,
                   files, port_files, exception_files, ext, i, sleeps, last_run>>

\* get_location_id with the portID file present: read_config
GetLocationIdCached ==
    /\ pc.stage = "get_location_id"
    /\ HasLocationId(Carriers[pc.k])
    /\ Carriers[pc.k] \in DOMAIN port_files
    /\ ext' = [ext EXCEPT !.port_id = ReadConfig(port_files[Carriers[pc.k]])]
    /\ pc' = [pc EXCEPT !.stage = "prepare"]
    /\ UNCHANGED <<cwd, today, query_dates,
                   config, carrier_mapping, main_delay_sheet, clean_delay_sheet,
                   files, port_files, exception_files, i, requests, sleeps,
                   faults, last_run>>

\* BaseExtractor.get_location_id (ONE, COSCO, Hamburg): pass
GetLocationIdPass ==
    /\ pc.stage = "get_location_id"
    /\ ~HasLocationId(Carriers[pc.k])
    /\ pc' = [pc EXCEPT !.stage = "prepare"]
    /\ UNCHANGED <<cwd, today, query_dates,
                   config, carrier_mapping, main_delay_sheet, clean_delay_sheet,
                   files, port_files, exception_files, ext, i, requests, sleeps,
                   faults, last_run>>

\* ---------------------------------------------------------------- prepare
\* Series.map(port_id): None for a name that is no key of the dict
MapPortId(d, n) == IF n \in DOMAIN d THEN d[n] ELSE None

\* the key columns of one line; columns a carrier's key lacks are ""
KeyRow(c, r) ==
    [pol |-> IF KeyHasPorts(c) THEN r.pol ELSE "",
     pod |-> IF KeyHasPorts(c) THEN r.pod ELSE "",
     pol_name |-> r.pol_name, pod_name |-> r.pod_name]
KeyRank(q) == <<Rank(q.pol), Rank(q.pod), Rank(q.pol_name), Rank(q.pod_name)>>

\* the pol_code / pod_code columns of a planned query
WithCodes(c, d, q) ==
    [pol |-> q.pol, pod |-> q.pod, pol_name |-> q.pol_name, pod_name |-> q.pod_name,
     pol_code |-> IF HasLocationId(c) THEN MapPortId(d, q.pol_name)
                  ELSE IF c = "COSCO" THEN PortNumber(q.pol) ELSE "",
     pod_code |-> IF HasLocationId(c) THEN MapPortId(d, q.pod_name)
                  ELSE IF c = "COSCO" THEN PortNumber(q.pod) ELSE ""]

\* DataFrame.dropna: rows with a null in any column go
HasNull(q) == None \in {q.pol, q.pod, q.pol_name, q.pod_name, q.pol_code, q.pod_code}
DropNaNone(s) == s
DropNa(s) == SelectSeq(s, LAMBDA q : ~HasNull(q))

\* delay_sheet.drop_duplicates(key)[key].sort_values(key), the code columns,
\* dropna
ReducedDf(c, ds, d) ==
    LET keys == [n \in 1..Len(ds) |-> KeyRow(c, ds[n])]
        dedup == DropDuplicates(keys, keys)
        sorted == SortValues(dedup, [n \in 1..Len(dedup) |-> KeyRank(dedup[n])])
    IN DropNa([n \in 1..Len(sorted) |-> WithCodes(c, d, sorted[n])])

Prepare ==
    /\ pc.stage = "prepare"
    /\ ext' = [ext EXCEPT !.reduced_df =
                 ReducedDf(Carriers[pc.k], ext.delay_sheet, ext.port_id)]
    /\ pc' = [pc EXCEPT !.stage = "call_api"]
    /\ i' = 1
    /\ UNCHANGED <<cwd, today, query_dates,
                   config, carrier_mapping, main_delay_sheet, clean_delay_sheet,
                   files, port_files, exception_files, requests, sleeps, faults,
                   last_run>>

\* --------------------------------------------------------------- call_api
\* the requests of call_api in loop order: every planned query, and for
\* Hamburg every window of it
Calls(c, reduced) ==
    Flatten([n \in 1..Len(reduced) |->
               [w \in 1..Len(Windows(c)) |-> [q |-> reduced[n], w |-> Windows(c)[w]]]])

\* response_filename
FileName(c, call) ==
    IF c = "Hamburg" THEN <<c, call.q.pol_name, call.q.pod_name, call.w>>
    ELSE IF KeyHasPorts(c) THEN <<c, call.q.pol, call.q.pod>>
    ELSE <<c, call.q.pol_name, call.q.pod_name>>

\* how the carrier's schedule service names a port in its answers
RemoteId(c, n) == IF c \in {"ONE", "Hamburg"} THEN n ELSE LocationID(n)

\* sailings the remote may quote for a route: two sailings of the line's
\* vessel and voyage with different arrival, and one of another vessel
Sailing(c, q, vessel, etd, eta) ==
    [pol |-> RemoteId(c, q.pol_name), pod |-> RemoteId(c, q.pod_name),
     Vessel |-> vessel, Voyage |-> "001", updated_etd |-> etd, updated_eta |-> eta]
Early(c, q) == Sailing(c, q, "V1", At(PlannedETD - 1, DayUnits - 1), At(PlannedETA + 2, 0))
Late(c, q) == Sailing(c, q, "V1", At(PlannedETD + 2, 0), At(PlannedETA + 9, DayUnits - 1))
Other(c, q) == Sailing(c, q, "V2", At(PlannedETD, 0), At(PlannedETA, 0))

\* a sailing none of whose legs is a vessel leg (no leg of Type 'Voyage',
\* no leg of transportMode 'Liner'): it names no vessel and no voyage
NoLeg(c, q) ==
    [Sailing(c, q, None, At(PlannedETD + 1, 0), At(PlannedETA + 1, 0))
       EXCEPT !.Voyage = None]
HasLegs(c) == c \in {"Hamburg", "OOCL"}

Empty == [kind |-> "empty", sailings |-> <<>>]
Error == [kind |-> "error", sailings |-> <<>>]
\* the schedule the remote holds for a route today: the later sailing is
\* listed first on routes into NB, last on the others
Schedule(c, q) ==
    [kind |-> "ok",
     sailings |-> IF q.pod_name = "NB" THEN <<Late(c, q), Other(c, q), Early(c, q)>>
                  ELSE <<Early(c, q), Other(c, q), Late(c, q)>>]
\* the same schedule led by a sailing without a vessel leg
Legless(c, q) ==
    [kind |-> "ok", sailings |-> <<NoLeg(c, q)>> \o Schedule(c, q).sailings]
\* what a request may come back with
Answers(c, q) ==
    {Schedule(c, q), Empty, Error} \cup (IF HasLegs(c) THEN {Legless(c, q)} ELSE {})
\* an answer other than the plain schedule
Unusual(c, q, r) == r # Schedule(c, q)
\* len(response.json()) / len(response.text)
PayloadLen(r) == IF r.kind = "empty" THEN 0 ELSE 1

CurrentCalls == Calls(Carriers[pc.k], ext.reduced_df)
\* a run that goes from the last fetch straight to the merge
AfterCallUpdate == IF i >= Len(CurrentCalls) THEN [pc EXCEPT !.stage = "update"] ELSE pc
AfterCall == IF i >= Len(CurrentCalls) THEN [pc EXCEPT !.stage = "extract"] ELSE pc

\* the file test of the loop body: response_filename in os.listdir()
IgnoreCache(name) == FALSE
InCache(name) == name \in DOMAIN files

\* whether a fetched response is written: if len(response.json())
Persisted(r) == PayloadLen(r) > 0

\* loop body, file present: the response is read back from the file
CallApiCached ==
    /\ pc.stage = "call_api" /\ i <= Len(CurrentCalls)
    /\ InCache(FileName(Carriers[pc.k], CurrentCalls[i]))
    /\ ext' = [ext EXCEPT !.response_jsons =
                 Append(@, files[FileName(Carriers[pc.k], CurrentCalls[i])])]
    /\ i' = i + 1
    /\ pc' = AfterCall
    /\ UNCHANGED <<cwd, today, query_dates,
                   config, carrier_mapping, main_delay_sheet, clean_delay_sheet,
                   files, port_files, exception_files, requests, sleeps, faults,
                   last_run>>

\* DelayReport.interval: the two randomiser values of the configuration
interval == <<config.randomiser_lower_interval, config.randomiser_upper_interval>>
\* random.randint(a, b): an integer N with a <= N <= b
RandIntBelow(a, b) == 0..(b - a)
RandInt(a, b) == a..b

\* loop body, file absent: request, append, write if non-empty, sleep
CallApiFetch ==
    /\ pc.stage = "call_api" /\ i <= Len(CurrentCalls)
    /\ ~InCache(FileName(Carriers[pc.k], CurrentCalls[i]))
    /\ LET c == Carriers[pc.k]
           name == FileName(c, CurrentCalls[i])
       IN \E r \in Answers(c, CurrentCalls[i].q) :
            /\ Unusual(c, CurrentCalls[i].q, r) => faults < MaxFaults
            /\ faults' = IF Unusual(c, CurrentCalls[i].q, r) THEN faults + 1 ELSE faults
            /\ ext' = [ext EXCEPT !.response_jsons = Append(@, r)]
            /\ files' = IF Persisted(r) THEN (name :> r) @@ files ELSE files
            /\ requests' = Append(requests, <<"schedule", name, r.kind>>)
    /\ \E d \in RandInt(interval[1], interval[2]) :
          sleeps' = [calls |-> sleeps.calls + 1, seconds |-> d]
    /\ i' = i + 1
    /\ pc' = AfterCall
    /\ UNCHANGED <<cwd, today, query_dates,
                   config, carrier_mapping, main_delay_sheet, clean_delay_sheet,
                   port_files, exception_files, last_run>>

\* what makes the fetch raise: the request itself ("failed"), or
\* response.json() on a body that is not JSON ("undecodable"); CMA and ANL
\* take response.text, which decodes nothing
RaiseCauses(c) ==
    IF c \in {"CMA", "ANL"} THEN {"failed"} ELSE {"failed", "undecodable"}

\* loop body, file absent: the request or response.json() raises
CallApiRaise ==
    /\ pc.stage = "call_api" /\ i <= Len(CurrentCalls)
    /\ ~InCache(FileName(Carriers[pc.k], CurrentCalls[i]))
    /\ \E cause \in RaiseCauses(Carriers[pc.k]) :
          requests' = Append(requests, <<"schedule",
                               FileName(Carriers[pc.k], CurrentCalls[i]), cause>>)
    /\ faults < MaxFaults
    /\ faults' = faults + 1
    /\ pc' = Crashed
    /\ UNCHANGED <<cwd, today, query_dates,
                   config, carrier_mapping, main_delay_sheet, clean_delay_sheet,
                   files, port_files, exception_files, ext, i, sleeps, last_run>>

\* call_api with no planned query: the loop body never runs
CallApiNone ==
    /\ pc.stage = "call_api" /\ CurrentCalls = <<>>
    /\ pc' = [pc EXCEPT !.stage = "extract"]
    /\ UNCHANGED <<cwd, today, query_dates,
                   config, carrier_mapping, main_delay_sheet, clean_delay_sheet,
                   files, port_files, exception_files, ext, i, requests, sleeps,
                   faults, last_run>>

\* ---------------------------------------------------------------- extract
\* decoding one response raises: KeyError on a payload without the schedule
\* path (COSCO, OOCL, MSC), ValueError of pd.read_html on a page without a
\* table (CMA, ANL)
ParseRaises(c, r) ==
    \/ c \in {"COSCO", "OOCL", "MSC"} /\ r.kind = "error"
    \/ c = "OOCL" /\ \E n \in 1..Len(r.sailings) : r.sailings[n].Vessel = None
    \/ c \in {"CMA", "ANL"} /\ r.kind \in {"empty", "error"}

\* port_id_reversed / reverse_port_id: remote identifier -> port name
Reverse(d, id) ==
    IF \E n \in DOMAIN d : d[n] = id THEN CHOOSE n \in DOMAIN d : d[n] = id ELSE None
\* COSCO: the First Name -> Port Name table of the crosswalk
StaticReverse(id) ==
    IF \E n \in Names : LocationID(n) = id /\ n # None
    THEN CHOOSE n \in Names : LocationID(n) = id /\ n # None ELSE None
NameOf(c, d, id) ==
    IF c \in {"ONE", "Hamburg"} THEN id
    ELSE IF c = "COSCO" THEN StaticReverse(id)
    ELSE Reverse(d, id)

\* get_relevant_fields over every usable response, in response order
Record(c, d, s) ==
    [pol |-> s.pol, pod |-> s.pod,
     pol_name |-> NameOf(c, d, s.pol), pod_name |-> NameOf(c, d, s.pod),
     Vessel |-> s.Vessel, Voyage |-> s.Voyage,
     updated_etd |-> s.updated_etd, updated_eta |-> s.updated_eta]
Records(c, d, responses) ==
    Flatten([n \in 1..Len(responses) |->
               [m \in 1..Len(responses[n].sailings) |->
                  Record(c, d, responses[n].sailings[m])]])

MergeKey(r) == <<r.pol_name, r.pod_name, r.Vessel, r.Voyage>>
\* the subset passed to drop_duplicates
DedupKey(c, r) == IF c = "OOCL" THEN <<r.pol, r.pod, r.Voyage, r.Vessel>> ELSE MergeKey(r)
SortByEta(s) == SortValues(s, [n \in 1..Len(s) |-> <<s[n].updated_eta>>])
Dedup(c, s) == DropDuplicates(s, [n \in 1..Len(s) |-> DedupKey(c, s[n])])

\* response_df as each extractor leaves it before the merge
ResponseDf(c, recs) ==
    IF c \in {"CMA", "ANL"} THEN SortByEta(Dedup(c, recs))
    ELSE IF c = "MSC" THEN recs
    ELSE Dedup(c, SortByEta(recs))

\* the datetime each extractor stores for a quoted time
Convert(c, ts) ==
    IF c \in {"ONE", "CMA", "ANL"} THEN Some(ts) ELSE DatePart(Some(ts))

\* delay_sheet.reset_index().merge(response_df, on=merge_key, how='left')
\* .set_index('index'): every line once per matching record, or once with
\* null dates
MergeLine(c, line, rdf) ==
    LET hits == SelectSeq(rdf, LAMBDA r : MergeKey(r) = MergeKey(line))
    IN IF hits = <<>> THEN <<line>>
       ELSE [n \in 1..Len(hits) |->
               [line EXCEPT !.updated_etd = Convert(c, hits[n].updated_etd),
                            !.updated_eta = Convert(c, hits[n].updated_eta)]]
Merge(c, ds, rdf) == Flatten([n \in 1..Len(ds) |-> MergeLine(c, ds[n], rdf)])

Extract ==
    /\ pc.stage = "extract"
    /\ \A n \in 1..Len(ext.response_jsons) :
          ~ParseRaises(Carriers[pc.k], ext.response_jsons[n])
    /\ LET c == Carriers[pc.k]
           recs == Records(c, ext.port_id, ext.response_jsons)
           rdf == ResponseDf(c, recs)
       IN ext' = [ext EXCEPT !.response_df = rdf,
                             !.delay_sheet = IF recs = <<>> THEN @ ELSE Merge(c, @, rdf)]
    /\ pc' = [pc EXCEPT !.stage = "update"]
    /\ UNCHANGED <<cwd, today, query_dates,
                   config, carrier_mapping, main_delay_sheet, clean_delay_sheet,
                   files, port_files, exception_files, i, requests, sleeps,
                   faults, last_run>>

ExtractRaise ==
    /\ pc.stage = "extract"
    /\ \E n \in 1..Len(ext.response_jsons) :
          ParseRaises(Carriers[pc.k], ext.response_jsons[n])
    /\ pc' = Crashed
    /\ UNCHANGED <<cwd, today, query_dates,
                   config, carrier_mapping, main_delay_sheet, clean_delay_sheet,
                   files, port_files, exception_files, ext, i, requests, sleeps,
                   faults, last_run>>

\* ----------------------------------------------- main_delay_sheet.update
\* one frame under two names: a write to the master is a write to both
SameFrame(frame, master) == master
\* clean_delay_sheet = main_delay_sheet.copy(): the copy as it stands once
\* the master has been written to
Copy(frame, master) == frame

\* the master row a row of the extractor's delay_sheet is aligned with
PositionalIndex(ds, n) == n - 1
TargetIndex(ds, n) == ds[n].index

\* reindex_like raises on an index with duplicates
DuplicateIndex(ds) ==
    \E n, m \in 1..Len(ds) : n # m /\ TargetIndex(ds, n) = TargetIndex(ds, m)

\* a cell of the updated frame: the other frame's value unless it is null
Overwrite(old, new) == IF IsNull(new) THEN old ELSE new
\* an update that takes the extractor's pod_name column for the master's
\* discharge port
UpdateRowRenamed(row, line) ==
    [row EXCEPT !.fwd = line.fwd, !.pol = line.pol, !.pod = line.pod_name,
                !.Vessel = line.Vessel, !.Voyage = line.Voyage,
                !.etd_date = Overwrite(@, line.etd_date),
                !.disport_eta = Overwrite(@, line.disport_eta),
                !.bol_date = Overwrite(@, line.bol_date),
                !.updated_etd = Overwrite(@, line.updated_etd),
                !.updated_eta = Overwrite(@, line.updated_eta)]
UpdateRow(row, line) ==
    [row EXCEPT !.fwd = line.fwd, !.pol = line.pol, !.pod = line.pod,
                !.Vessel = line.Vessel, !.Voyage = line.Voyage,
                !.etd_date = Overwrite(@, line.etd_date),
                !.disport_eta = Overwrite(@, line.disport_eta),
                !.bol_date = Overwrite(@, line.bol_date),
                !.updated_etd = Overwrite(@, line.updated_etd),
                !.updated_eta = Overwrite(@, line.updated_eta)]
Updated(sheet, ds) ==
    [k \in Index |->
       IF \E n \in 1..Len(ds) : TargetIndex(ds, n) = k
       THEN UpdateRow(sheet[k], ds[CHOOSE n \in 1..Len(ds) : TargetIndex(ds, n) = k])
       ELSE sheet[k]]

NextCarrier ==
    IF pc.k < NumCarriers THEN [k |-> pc.k + 1, stage |-> "run"]
    ELSE [k |-> NumCarriers + 1, stage |-> "run_g2"]

\* DelayReport.run, last statement
Update ==
    /\ pc.stage = "update"
    /\ ~DuplicateIndex(ext.delay_sheet)
    /\ main_delay_sheet' = Updated(main_delay_sheet, ext.delay_sheet)
    /\ clean_delay_sheet' = Copy(clean_delay_sheet, main_delay_sheet')
    /\ pc' = NextCarrier
    /\ UNCHANGED <<cwd, today, query_dates,
                   config, carrier_mapping, files, port_files,
                   exception_files, ext, i, requests, sleeps, faults, last_run>>

UpdateRaise ==
    /\ pc.stage = "update"
    /\ DuplicateIndex(ext.delay_sheet)
    /\ pc' = Crashed
    /\ UNCHANGED <<cwd, today, query_dates,
                   config, carrier_mapping, main_delay_sheet, clean_delay_sheet,
                   files, port_files, exception_files, ext, i, requests, sleeps,
                   faults, last_run>>

\* -------------------------------------------------------------- G2 (file)
\* the schedule sheet: one ETA and one ETD column per vessel, one row per
\* port name; a cell is a date or the '-' sentinel (Dash)
Dash == <<-1>>
G2Vessels == {"V1"}
G2Rows == {"NA", "NB"}
G2Cell(port, col) ==
    IF port = "NA" THEN (IF col = "etd" THEN Some(At(PlannedETD + 2, 0)) ELSE Dash)
    ELSE (IF col = "etd" THEN Dash ELSE Some(At(PlannedETA + 2, 0)))

\* get_updated_etd / get_updated_eta raise when the port has no schedule row
G2LookupRaises(line, port) == line.Vessel \in G2Vessels /\ Get(port) \notin G2Rows
\* 'etd is '-'' compares object identity: whether the cell's string is the
\* literal's object (same) is up to the interpreter; if it is not, the '-'
\* is returned as the date
G2Lookup(line, port, col, same) ==
    IF line.Vessel \notin G2Vessels THEN NaT
    ELSE IF G2Cell(Get(port), col) = Dash /\ same THEN NaT
    ELSE G2Cell(Get(port), col)

G2Line(sheet, k, same) ==
    [Line("G2", sheet, k) EXCEPT
       !.updated_etd = G2Lookup(sheet[k], sheet[k].pol, "etd", same),
       !.updated_eta = G2Lookup(sheet[k], sheet[k].pod, "eta", same)]
G2DelaySheet(sheet, same) ==
    LET ks == IndexSeq(Filter("G2", sheet), 0)
    IN [n \in 1..Len(ks) |-> G2Line(sheet, ks[n], same)]
G2Raises(sheet) ==
    \E k \in Filter("G2", sheet) :
       G2LookupRaises(sheet[k], sheet[k].pol) \/ G2LookupRaises(sheet[k], sheet[k].pod)

AfterCarriers == [k |-> NumCarriers + 1, stage |-> "calculate_deltas"]

\* DelayReport.run_g2
RunG2 ==
    /\ pc.stage = "run_g2"
    /\ config.run["G2"]
    /\ ~G2Raises(clean_delay_sheet)
    /\ \E same \in BOOLEAN :
         /\ ext' = [NoExtractor EXCEPT
                      !.delay_sheet = G2DelaySheet(clean_delay_sheet, same)]
         /\ main_delay_sheet' =
               Updated(main_delay_sheet, G2DelaySheet(clean_delay_sheet, same))
    /\ clean_delay_sheet' = Copy(clean_delay_sheet, main_delay_sheet')
    /\ pc' = AfterCarriers
    /\ UNCHANGED <<cwd, today, query_dates,
                   config, carrier_mapping, files, port_files,
                   exception_files, i, requests, sleeps, faults, last_run>>

RunG2Raise ==
    /\ pc.stage = "run_g2"
    /\ config.run["G2"]
    /\ G2Raises(clean_delay_sheet)
    /\ pc' = Crashed
    /\ UNCHANGED <<cwd, today, query_dates,
                   config, carrier_mapping, main_delay_sheet, clean_delay_sheet,
                   files, port_files, exception_files, ext, i, requests, sleeps,
                   faults, last_run>>

RunG2Skip ==
    /\ pc.stage = "run_g2"
    /\ ~config.run["G2"]
    /\ pc' = AfterCarriers
    /\ UNCHANGED <<cwd, today, query_dates,
                   config, carrier_mapping, main_delay_sheet, clean_delay_sheet,
                   files, port_files, exception_files, ext, i, requests, sleeps,
                   faults, last_run>>

\* ------------------------------------------------------------ DeltaEngine
\* calculate_deltas on one row: planned dates to datetimes, the two deltas,
\* then every date column formatted as a day
DeltaRow(row) ==
    [row EXCEPT
       !.days_etd = Days(row.updated_etd, ToDatetime(row.etd_date)),
       !.days_eta = Days(row.updated_eta, ToDatetime(row.disport_eta)),
       !.etd_date = Strftime(ToDatetime(@)),
       !.disport_eta = Strftime(ToDatetime(@)),
       !.bol_date = Strftime(ToDatetime(@)),
       !.updated_etd = Strftime(@),
       !.updated_eta = Strftime(@)]

\* the subtraction raises on a column that holds a '-' string
DeltasRaise(sheet) ==
    \E k \in Index : Dash \in {sheet[k].updated_etd, sheet[k].updated_eta}

CalculateDeltas ==
    /\ pc.stage = "calculate_deltas"
    /\ ~DeltasRaise(main_delay_sheet)
    /\ main_delay_sheet' = [k \in Index |-> DeltaRow(main_delay_sheet[k])]
    /\ pc' = [pc EXCEPT !.stage = "mask_bol"]
    /\ UNCHANGED <<cwd, today, query_dates,
                   config, carrier_mapping, clean_delay_sheet, files, port_files,
                   exception_files, ext, i, requests, sleeps, faults, last_run>>

CalculateDeltasRaise ==
    /\ pc.stage = "calculate_deltas"
    /\ DeltasRaise(main_delay_sheet)
    /\ pc' = Crashed
    /\ UNCHANGED <<cwd, today, query_dates,
                   config, carrier_mapping, main_delay_sheet, clean_delay_sheet,
                   files, port_files, exception_files, ext, i, requests, sleeps,
                   faults, last_run>>

\* mask_bol on one row
MaskEnabled == config.mask_date_if_bol_present
MaskRowDatesOnly(row) ==
    IF IsNull(row.bol_date) THEN row
    ELSE [row EXCEPT !.updated_etd = row.etd_date, !.updated_eta = row.disport_eta]
MaskRow(row) ==
    IF IsNull(row.bol_date) THEN row
    ELSE [row EXCEPT !.updated_etd = row.etd_date, !.updated_eta = row.disport_eta,
                     !.days_etd = Some(0), !.days_eta = Some(0)]

MaskBol ==
    /\ pc.stage = "mask_bol"
    /\ main_delay_sheet' = IF MaskEnabled
                           THEN [k \in Index |-> MaskRow(main_delay_sheet[k])]
                           ELSE main_delay_sheet
    /\ pc' = [pc EXCEPT !.stage = "output"]
    /\ UNCHANGED <<cwd, today, query_dates,
                   config, carrier_mapping, clean_delay_sheet, files, port_files,
                   exception_files, ext, i, requests, sleeps, faults, last_run>>

\* DelayReport.output: the sheet is written as it stands
Output ==
    /\ pc.stage = "output"
    /\ pc' = [pc EXCEPT !.stage = "done"]
    /\ UNCHANGED <<cwd, today, query_dates,
                   config, carrier_mapping, main_delay_sheet, clean_delay_sheet,
                   files, port_files, exception_files, ext, i, requests, sleeps,
                   faults, last_run>>

\* ------------------------------------------------- another run, same day
\* every schedule response this run fetched was written to its file
AllPersisted ==
    \A n \in 1..Len(requests) :
       requests[n][1] = "schedule" => requests[n][2] \in DOMAIN files

\* the script is started again on the same day over the same workbook and
\* configuration: DelayReport.__init__ again, the day's directory is kept
Restart ==
    /\ pc.stage \in {"done", "crashed"}
    /\ last_run' = IF pc.stage = "crashed" THEN "crashed"
                   ELSE IF AllPersisted THEN "clean" ELSE "completed"
    /\ main_delay_sheet' = clean_delay_sheet
    /\ pc' = [k |-> 1, stage |-> "run"]
    /\ ext' = NoExtractor
    /\ i' = 0
    /\ requests' = <<>>
    /\ sleeps' = NoSleep
    /\ cwd' = Chdir("root", TodayPath)
    /\ UNCHANGED <<today, query_dates,
                   config, carrier_mapping, clean_delay_sheet, files, port_files,
                   exception_files, faults>>

Next ==
    \/ Construct \/ ConstructRaise \/ Skip
    \/ GetLocationIdFetch \/ GetLocationIdRaise \/ GetLocationIdCached
    \/ GetLocationIdPass
    \/ Prepare
    \/ CallApiCached \/ CallApiFetch \/ CallApiRaise \/ CallApiNone
    \/ Extract \/ ExtractRaise
    \/ Update \/ UpdateRaise
    \/ RunG2 \/ RunG2Raise \/ RunG2Skip
    \/ CalculateDeltas \/ CalculateDeltasRaise \/ MaskBol \/ Output
    \/ Restart

Spec == Init /\ [][Next]_vars

\* ------------------------------------------------------------ query dates
\* the dates get_schedules builds from datetime.today(), on every day of a
\* common year and of a leap year
DaysInMonth(leap, month) ==
    IF month = 2 THEN (IF leap THEN 29 ELSE 28)
    ELSE IF month \in {4, 6, 9, 11} THEN 30 ELSE 31
IsDate(d) == d.month \in 1..12 /\ d.day \in 1..DaysInMonth(d.leap, d.month)
Calendar ==
    {d \in [leap : BOOLEAN, month : 1..12, day : 1..31] : IsDate(d)}

\* datetime.replace(month=, day=): the fields are set as given; the result
\* is a date or the call raises ValueError
ReplaceDate(d, month, day) == [d EXCEPT !.month = month, !.day = day]
ReplaceRaises(d, month, day) == ~IsDate(ReplaceDate(d, month, day))

\* ONE: first_day and last_day of the schedule window
OneFirstDay(d) == ReplaceDate(d, d.month, 1)
OneLastDay(d) == ReplaceDate(OneFirstDay(d), d.month + 3, 1)
OneDatesRaise(d) == ReplaceRaises(OneFirstDay(d), d.month + 3, 1)
\* Hamburg: searchDate of every window of the loop
HamburgSearchDates(d) ==
    [n \in 1..Len(HamburgWindows) |-> ReplaceDate(d, d.month, HamburgWindows[n])]
HamburgDatesRaise(d) ==
    \E n \in 1..Len(HamburgWindows) : ReplaceRaises(d, d.month, HamburgWindows[n])

\* a process on some day of the calendar, nothing run yet
DateInit ==
    /\ today \in Calendar
    /\ query_dates = <<>>
    /\ config = [run |-> [c \in AllCarriers |-> c \in {"ONE", "Hamburg"}],
                 mask_date_if_bol_present |-> FALSE,
                 randomiser_lower_interval |-> LowerInterval,
                 randomiser_upper_interval |-> UpperInterval]
    /\ carrier_mapping = [a \in {"AGENT"} |-> "ONE"]
    /\ main_delay_sheet = [k \in Index |-> NewRow("AGENT", <<"A", "B">>, NaT)]
    /\ clean_delay_sheet = main_delay_sheet
    /\ files = <<>> /\ port_files = <<>> /\ exception_files = <<>>
    /\ pc = [k |-> 1, stage |-> "call_api"]
    /\ ext = NoExtractor
    /\ i = 1
    /\ requests = <<>>
    /\ sleeps = NoSleep
    /\ faults = 0
    /\ last_run = "none"
    /\ cwd = Chdir("root", TodayPath)

\* everything but the dates built
others == <<config, carrier_mapping, main_delay_sheet, clean_delay_sheet, files,
            port_files, exception_files, pc, ext, i, requests, sleeps, faults,
            last_run, cwd, today>>

\* ONEExtractor.call_api.get_schedules builds its two dates
OneDates ==
    /\ query_dates = <<>> /\ ~OneDatesRaise(today)
    /\ query_dates' = [carrier |-> "ONE", raised |-> FALSE,
                       dates |-> <<OneFirstDay(today), OneLastDay(today)>>]
    /\ UNCHANGED others
OneDatesValueError ==
    /\ query_dates = <<>> /\ OneDatesRaise(today)
    /\ query_dates' = [carrier |-> "ONE", raised |-> TRUE, dates |-> <<>>]
    /\ UNCHANGED others
\* HamburgExtractor.call_api: get_schedules of the five windows of a route
HamburgDates ==
    /\ query_dates = <<>> /\ ~HamburgDatesRaise(today)
    /\ query_dates' = [carrier |-> "Hamburg", raised |-> FALSE,
                       dates |-> HamburgSearchDates(today)]
    /\ UNCHANGED others
HamburgDatesValueError ==
    /\ query_dates = <<>> /\ HamburgDatesRaise(today)
    /\ query_dates' = [carrier |-> "Hamburg", raised |-> TRUE, dates |-> <<>>]
    /\ UNCHANGED others

DateNext == OneDates \/ OneDatesValueError \/ HamburgDates \/ HamburgDatesValueError
DateSpec == DateInit /\ [][DateNext]_vars

\* ================================================================= claims
\* the planned query being processed by call_api, and its cache file name
AtCall == pc.stage = "call_api" /\ i <= Len(CurrentCalls)
CallName == FileName(Carriers[pc.k], CurrentCalls[i])
\* the schedule requests among the requests of this run
ScheduleRequests == {n \in 1..Len(requests) : requests[n][1] = "schedule"}

\* C1 (as stated): whatever step of a carrier's pipeline raises, the
\* orchestrator catches it, so no exception ever escapes the run.
C1_NoExceptionEscapes == pc.stage # "crashed"

\* C2 (as stated): once a run has completed on a day, the next run of that
\* day issues no network request, whatever the completed run received.
C2_SecondRunNoRequests == last_run \in {"completed", "clean"} => requests = <<>>

\* C2 (amended): once a run has completed on a day and every schedule
\* response it fetched was non-empty (so was written to its file), the next
\* run of that day issues neither a schedule query nor a location lookup.
C2_SecondRunNoRequestsWhenPersisted == last_run = "clean" => requests = <<>>

\* a second run after such a run has finished, having read schedule
\* responses and the location identifiers from the day's files
C2_Witness ==
    /\ last_run = "clean" /\ pc.stage = "done"
    /\ DOMAIN files # {} /\ DOMAIN port_files # {}

\* C3: when the cache file of the planned query being processed exists, the
\* step issues no request, applies no delay, and the response kept for
\* parsing is the content of that file.
C3_CachedQueryIsReadBack ==
    [][(AtCall /\ CallName \in DOMAIN files)
         => /\ requests' = requests
            /\ sleeps' = sleeps
            /\ ext'.response_jsons = Append(ext.response_jsons, files[CallName])]_vars

\* a run that has taken a response from a file and has issued no request
\* and slept not once
C3_Witness ==
    /\ pc.stage \in {"call_api", "extract"}
    /\ Len(ext.response_jsons) > 0
    /\ \A n \in 1..Len(ext.response_jsons) : ext.response_jsons[n] \in Range(files)
    /\ requests = <<>> /\ sleeps = NoSleep

\* C4 (as stated): an empty response and an error payload leave no cache
\* file; a cache file only ever holds a successful non-empty response.
C4_OnlySuccessfulResponsesCached ==
    \A name \in DOMAIN files : files[name].kind = "ok"

\* the table handed to output / written by it
AtOutput == pc.stage \in {"output", "done"}
\* a shipped line shows its planned dates and no delay
Masked(row) ==
    /\ row.updated_etd = row.etd_date /\ row.updated_eta = row.disport_eta
    /\ row.days_etd = Some(0) /\ row.days_eta = Some(0)

\* C5 (as stated): in the table handed to output every line with a
\* bill-of-lading date has its updated dates equal to the planned dates and
\* both delays 0.
C5_ShippedLinesMasked ==
    AtOutput => \A k \in Index :
                   ~IsNull(main_delay_sheet[k].bol_date) => Masked(main_delay_sheet[k])

\* C5 (amended): when mask_date_if_bol_present is set in the configuration,
\* in the table handed to output every line with a bill-of-lading date has
\* its updated dates equal to the planned dates and both delays 0.
C5_ShippedLinesMaskedWhenEnabled ==
    (AtOutput /\ config.mask_date_if_bol_present)
       => \A k \in Index :
             ~IsNull(main_delay_sheet[k].bol_date) => Masked(main_delay_sheet[k])

\* the table is handed to output with masking on, and a shipped line for
\* which the last extractor merged a departure other than the planned one
C5_Witness ==
    /\ pc.stage = "output" /\ config.mask_date_if_bol_present
    /\ \E n \in 1..Len(ext.delay_sheet) :
          /\ ~IsNull(ext.delay_sheet[n].bol_date)
          /\ ~IsNull(ext.delay_sheet[n].updated_etd)
          /\ Strftime(ext.delay_sheet[n].updated_etd) # ext.delay_sheet[n].etd_date
          /\ Masked(main_delay_sheet[ext.delay_sheet[n].index])

\* the forwarding-agent tags that belong to carrier c: the tags the carrier
\* mapping gives to its family, and the carrier's own tag for MSC and G2
Owns(c, tag) ==
    \/ tag \in DOMAIN carrier_mapping /\ carrier_mapping[tag] = Family(c)
    \/ c = "MSC" /\ tag = "MSC"
    \/ c = "G2" /\ tag = "G2OCEAN"
OthersUnchanged(c) ==
    \A k \in Index :
       ~Owns(c, main_delay_sheet[k].fwd) => main_delay_sheet'[k] = main_delay_sheet[k]

\* C6: the step that merges a carrier's result into the master table (the
\* update of run, and of run_g2) leaves every row whose forwarding-agent tag
\* does not belong to that carrier unchanged in all its fields.
C6_MergeKeepsOtherRows ==
    [][/\ pc.stage = "update" => OthersUnchanged(Carriers[pc.k])
       /\ pc.stage = "run_g2" => OthersUnchanged("G2")]_vars

\* a carrier has just merged dates into a line of the agent while a line of
\* another tag stands in the table as it was read
C6_Witness ==
    /\ pc.stage = "run" /\ pc.k > 1
    /\ \E a, b \in Index :
          /\ main_delay_sheet[a].fwd = "AGENT"
          /\ ~IsNull(main_delay_sheet[a].updated_eta)
          /\ main_delay_sheet[b].fwd # "AGENT"
          /\ main_delay_sheet[b] = clean_delay_sheet[b]

\* the carrier a cache file or schedule request belongs to, and whether both
\* endpoints of its route have a location identifier in the carrier's
\* portID file
EndName(c, p) == IF KeyHasPorts(c) THEN Get(p) ELSE p
Resolved(name) ==
    /\ name[1] \in DOMAIN port_files
    /\ MapPortId(port_files[name[1]], EndName(name[1], name[2])) # None
    /\ MapPortId(port_files[name[1]], EndName(name[1], name[3])) # None

\* C7: for the carriers with location resolution (CMA, ANL, OOCL, MSC) every
\* planned query has both its location codes, and every schedule request
\* issued and every cache file written is for a route whose two endpoints
\* resolved; an unresolved endpoint means no request and no file.
C7_OnlyResolvedRoutes ==
    /\ (pc.stage \in {"call_api", "extract", "update"} /\ HasLocationId(Carriers[pc.k]))
          => \A n \in 1..Len(ext.reduced_df) :
                /\ ext.reduced_df[n].pol_code # None
                /\ ext.reduced_df[n].pod_code # None
                /\ MapPortId(ext.port_id, ext.reduced_df[n].pol_name) # None
                /\ MapPortId(ext.port_id, ext.reduced_df[n].pod_name) # None
    /\ \A n \in ScheduleRequests :
          HasLocationId(requests[n][2][1]) => Resolved(requests[n][2])
    /\ \A name \in DOMAIN files : HasLocationId(name[1]) => Resolved(name)

\* a carrier with location resolution has two lines on different routes, a
\* name it could not resolve is on record, only one route was planned, and
\* that route was requested
C7_Witness ==
    /\ pc.stage = "update" /\ HasLocationId(Carriers[pc.k])
    /\ Carriers[pc.k] \in DOMAIN exception_files
    /\ Len(ext.delay_sheet) >= 2 /\ Len(ext.reduced_df) = 1
    /\ \E a, b \in 1..Len(ext.delay_sheet) :
          ext.delay_sheet[a].pod # ext.delay_sheet[b].pod
    /\ ScheduleRequests # {}

\* the (origin, destination) pair a planned query is sent with: the location
\* codes where the carrier has them, the port names otherwise
QueryPair(c, q) ==
    IF HasLocationId(c) \/ c = "COSCO" THEN <<q.pol_code, q.pod_code>>
    ELSE <<q.pol_name, q.pod_name>>
Prepared == pc.stage \in {"call_api", "extract", "update"}
\* a line of the extractor both of whose endpoints resolved
LineResolved(c, d, line) ==
    /\ line.pol_name # None /\ line.pod_name # None
    /\ HasLocationId(c) => /\ MapPortId(d, line.pol_name) # None
                           /\ MapPortId(d, line.pod_name) # None
C8_NoPairTwice ==
    Prepared => \A n, m \in 1..Len(ext.reduced_df) :
                   n # m => QueryPair(Carriers[pc.k], ext.reduced_df[n])
                               # QueryPair(Carriers[pc.k], ext.reduced_df[m])
C8_Ordered ==
    Prepared => \A n, m \in 1..Len(ext.reduced_df) :
                   n < m => ~LexLess(
                      <<Rank(QueryPair(Carriers[pc.k], ext.reduced_df[m])[1]),
                        Rank(QueryPair(Carriers[pc.k], ext.reduced_df[m])[2])>>,
                      <<Rank(QueryPair(Carriers[pc.k], ext.reduced_df[n])[1]),
                        Rank(QueryPair(Carriers[pc.k], ext.reduced_df[n])[2])>>)
C8_Covering ==
    Prepared => \A n \in 1..Len(ext.delay_sheet) :
                   LineResolved(Carriers[pc.k], ext.port_id, ext.delay_sheet[n])
                     => \E m \in 1..Len(ext.reduced_df) :
                           /\ ext.reduced_df[m].pol_name = ext.delay_sheet[n].pol_name
                           /\ ext.reduced_df[m].pod_name = ext.delay_sheet[n].pod_name

\* C8 (as stated): for every carrier the query list prepare yields has no
\* (origin_code, destination_code) pair twice, is ordered by origin then
\* destination, and covers every line with both endpoints resolved.
C8_QueriesMinimalSortedCovering == C8_NoPairTwice /\ C8_Ordered /\ C8_Covering

\* the records parsed from the responses of the carrier being run, and the
\* soonest arrival quoted for a key
Parsed == Records(Carriers[pc.k], ext.port_id, ext.response_jsons)
SoonestEta(recs, key) ==
    CHOOSE e \in {recs[n].updated_eta : n \in {m \in 1..Len(recs) : MergeKey(recs[m]) = key}} :
       \A n \in 1..Len(recs) : MergeKey(recs[n]) = key => e <= recs[n].updated_eta

\* C9 (as stated): after extract, for every carrier and every key (origin,
\* destination, vessel, voyage) quoted in the responses, exactly one record
\* is kept and it carries the soonest ETA quoted for that key.
C9_SoonestEtaKept ==
    pc.stage = "update" =>
       \A n \in 1..Len(Parsed) :
          /\ Cardinality({m \in 1..Len(ext.response_df) :
                             MergeKey(ext.response_df[m]) = MergeKey(Parsed[n])}) = 1
          /\ \A m \in 1..Len(ext.response_df) :
                MergeKey(ext.response_df[m]) = MergeKey(Parsed[n])
                   => ext.response_df[m].updated_eta = SoonestEta(Parsed, MergeKey(Parsed[n]))

\* the whole-day difference of two calendar days; null without the first
DayDiff(updated, planned) ==
    IF IsNull(updated) THEN NaT ELSE Some(Val(updated) - Val(planned))

\* C10: in the table calculate_deltas leaves, every line with a resolved
\* ETD has 'No. of days delayed ETD' equal to the calendar day of
\* updated_etd minus the planned ETD day, every line without one has a null
\* delay (not 0), and likewise for the ETA.
C10_DelayIsDayDifference ==
    pc.stage = "mask_bol" =>
       \A k \in Index :
          /\ main_delay_sheet[k].days_etd
                = DayDiff(main_delay_sheet[k].updated_etd, main_delay_sheet[k].etd_date)
          /\ main_delay_sheet[k].days_eta
                = DayDiff(main_delay_sheet[k].updated_eta, main_delay_sheet[k].disport_eta)

\* calculate_deltas has run over a table with a line that departs two days
\* after plan, or the evening before the planned day, and a line without
\* resolved dates
C10_Witness ==
    /\ pc.stage = "mask_bol"
    /\ \E a, b \in Index :
          /\ main_delay_sheet[a].days_etd \in {Some(2), Some(-1)}
          /\ ~IsNull(main_delay_sheet[a].days_eta)
          /\ IsNull(main_delay_sheet[b].updated_etd)
          /\ IsNull(main_delay_sheet[b].days_etd)

\* the last request of the run is a schedule fetch that raised, and the
\* fetches of the same carrier that came back with a schedule before it
LastFetchRaised ==
    /\ requests # <<>>
    /\ Last(requests)[1] = "schedule"
    /\ Last(requests)[3] \in {"failed", "undecodable"}
FetchedBefore ==
    {n \in ScheduleRequests :
        requests[n][2][1] = Last(requests)[2][1] /\ requests[n][3] = "ok"}

\* C11 (as stated): when the fetch of one planned query of a carrier raises
\* while two other fetches of the same carrier succeeded, the failure stays
\* with that query: no exception escapes the orchestrator and the run goes
\* on to merge the routes that were fetched.
C11_RaisingFetchIsIsolated ==
    (LastFetchRaised /\ Cardinality(FetchedBefore) >= 2) => pc.stage # "crashed"

\* a port the static crosswalk has no row for
Unmapped(p) == p \notin DOMAIN port_mapping
\* whether the carrier's unresolved-exceptions file names the port, by its
\* code or by the name the constructor gave it
Recorded(c, p) ==
    /\ c \in DOMAIN exception_files
    /\ {p, PodName(c, p)} \cap Range(exception_files[c]) # {}

\* C12 (as stated): for every carrier, a line whose origin or destination
\* is absent from the static crosswalk raises no exception in the
\* constructor, gets no planned query for its route, and has the port
\* recorded in the carrier's unresolved-exceptions file.
C12_UnmappedPortIsSetAside ==
    /\ (pc.stage = "run" /\ pc.k \in 1..NumCarriers /\ config.run[Carriers[pc.k]])
          => ~ConstructorRaises(Carriers[pc.k], clean_delay_sheet)
    /\ Prepared =>
          \A n \in 1..Len(ext.delay_sheet) :
             LET line == ext.delay_sheet[n]
             IN \A p \in {line.pol, line.pod} :
                   Unmapped(p) =>
                      /\ \A m \in 1..Len(ext.reduced_df) :
                            <<ext.reduced_df[m].pol_name, ext.reduced_df[m].pod_name>>
                               # <<line.pol_name, line.pod_name>>
                      /\ Recorded(Carriers[pc.k], p)

\* the stages of DelayReport.run in the order of its statements
RunStages == <<"run", "get_location_id", "prepare", "call_api", "extract", "update">>
StageNumber(stage) == CHOOSE n \in 1..Len(RunStages) : RunStages[n] = stage
InRun(p) == p.stage \in Range(RunStages)

\* C13: within one invocation of run for an enabled carrier the stages
\* follow one another in the order constructor, get_location_id, prepare,
\* call_api, extract, merge into the master table: a step that leaves a
\* stage enters the next stage of the same carrier, never an earlier or a
\* later one, and the merge is the stage that ends the invocation; a stage
\* that raises ends the run instead.
C13_StagesInOrder ==
    [][(InRun(pc) /\ pc' # pc /\ pc'.stage # "crashed"
          /\ ~(pc.stage = "run" /\ ~config.run[Carriers[pc.k]]))
         => IF pc.stage = "update"
            THEN ~InRun(pc') \/ (pc'.stage = "run" /\ pc'.k # pc.k)
            ELSE /\ pc'.k = pc.k
                 /\ pc'.stage = RunStages[StageNumber(pc.stage) + 1]]_vars

\* a carrier with location resolution went through every stage: it looked
\* names up, planned and fetched a query, parsed it and merged dates into
\* the master table, and the next carrier is about to start
C13_Witness ==
    /\ pc.stage = "run" /\ pc.k > 1
    /\ ext.port_id # <<>> /\ ext.reduced_df # <<>>
    /\ ext.response_jsons # <<>> /\ ext.response_df # <<>>
    /\ \E k \in Index : ~IsNull(main_delay_sheet[k].updated_eta)

\* the carriers in the order of the run calls of the main block, G2 last
MainOrder == <<"ONE", "COSCO", "CMA", "ANL", "Hamburg", "OOCL", "MSC", "G2">>
AtCarrier(p) == InRun(p) \/ p.stage = "run_g2"
CarrierAt(p) == IF p.stage = "run_g2" THEN "G2" ELSE Carriers[p.k]

\* C14: the carriers are processed in the order ONE, COSCO, CMA, ANL,
\* Hamburg, OOCL, MSC, G2; processing moves from a carrier to the next one
\* of that order only, and only once that carrier's merge has been done (or
\* the carrier is switched off); calculate_deltas is entered from G2, the
\* last carrier, only, and once it is left no carrier and no second
\* calculate_deltas follows in that run.
C14_CarriersInOrder ==
    [][/\ AtCarrier(pc) => CarrierAt(pc) = MainOrder[pc.k]
       /\ (InRun(pc) /\ pc'.k # pc.k /\ pc'.stage # "crashed")
             => /\ pc.stage \in {"update", "run"}
                /\ pc'.k = pc.k + 1
                /\ pc'.stage = IF pc.k < Len(MainOrder) - 1 THEN "run" ELSE "run_g2"
       /\ (pc'.stage = "calculate_deltas" /\ pc.stage # "calculate_deltas")
             => pc.stage = "run_g2"
       /\ (pc.stage = "calculate_deltas" /\ pc' # pc)
             => pc'.stage \in {"mask_bol", "crashed"}
       /\ pc.stage \in {"mask_bol", "output"}
             => ~AtCarrier(pc') /\ pc'.stage # "calculate_deltas"]_vars

\* calculate_deltas has just run, after a network carrier and G2 each
\* merged dates into rows of their own
C14_Witness ==
    /\ pc.stage = "mask_bol"
    /\ \E a, b \in Index :
          /\ main_delay_sheet[a].fwd # "G2OCEAN"
          /\ ~IsNull(main_delay_sheet[a].days_eta)
          /\ main_delay_sheet[b].fwd = "G2OCEAN"
          /\ ~IsNull(main_delay_sheet[b].days_etd)

\* the location lookups among the requests of this run
LocationRequests == {n \in 1..Len(requests) : requests[n][1] = "location"}

\* C15 (as stated): in a run that resolves a carrier's locations, the
\* location-search endpoint is called once per distinct port name of the
\* carrier's lines: no name is looked up twice for one carrier, also when
\* it is the origin of one line and the destination of another.
C15_OneLookupPerName ==
    \A n, m \in LocationRequests :
       (n # m /\ requests[n][2] = requests[m][2]) => requests[n][3] # requests[m][3]

\* C16: when the carrier's portID file exists in today's directory as
\* get_location_id runs, the step issues no request, writes no file, and
\* leaves as the port-to-code mapping that prepare maps with exactly the
\* content of that file.
C16_LocationsReadFromFile ==
    [][(pc.stage = "get_location_id" /\ pc' # pc
          /\ HasLocationId(Carriers[pc.k]) /\ Carriers[pc.k] \in DOMAIN port_files)
         => /\ requests' = requests
            /\ port_files' = port_files /\ exception_files' = exception_files
            /\ pc' = [pc EXCEPT !.stage = "prepare"]
            /\ ext'.port_id = port_files[Carriers[pc.k]]]_vars

\* a later run of the day is about to plan a carrier's queries with the
\* mapping it read from the file an earlier run wrote, having looked
\* nothing up
C16_Witness ==
    /\ pc.stage = "prepare" /\ last_run # "none"
    /\ Carriers[pc.k] \in DOMAIN port_files
    /\ ext.port_id = port_files[Carriers[pc.k]]
    /\ \E n \in DOMAIN ext.port_id : ext.port_id[n] # None
    /\ LocationRequests = {}

\* C17 (as stated): when the remote answers a planned query with an empty
\* body or with one that cannot be decoded, call_api does not raise: the
\* step records an (empty or sentinel) payload for that query and moves on
\* to the next planned query.
C17_BadResponseIsRecorded ==
    [][(AtCall /\ requests' # requests
          /\ Last(requests')[3] \in {"empty", "undecodable"})
         => /\ pc'.stage # "crashed"
            /\ Len(ext'.response_jsons) = Len(ext.response_jsons) + 1
            /\ i' = i + 1]_vars

\* the sailings without a vessel leg among the responses of the batch
LeglessSailings ==
    {s \in UNION {Range(ext.response_jsons[n].sailings) :
                     n \in 1..Len(ext.response_jsons)} : s.Vessel = None}

\* C18 (as stated): when a response of the batch holds a sailing without a
\* vessel leg (OOCL: no leg of Type 'Voyage'; Hamburg: no leg of
\* transportMode 'Liner'), extract does not raise, no line gets the dates
\* of that sailing, and every line matched by another sailing of the batch
\* still gets its resolved dates.
C18_LeglessSailingIsPassedOver ==
    [][(pc.stage = "extract" /\ pc' # pc
          /\ HasLegs(Carriers[pc.k]) /\ LeglessSailings # {})
         => /\ pc'.stage = "update"
            /\ \A n \in 1..Len(ext'.delay_sheet) : \A s \in LeglessSailings :
                  ext'.delay_sheet[n].updated_eta
                     # Convert(Carriers[pc.k], s.updated_eta)
            /\ \A r \in Range(Records(Carriers[pc.k], ext.port_id, ext.response_jsons)) :
                  \A n \in 1..Len(ext.delay_sheet) :
                     (r.Vessel # None /\ MergeKey(r) = MergeKey(ext.delay_sheet[n]))
                        => \E m \in 1..Len(ext'.delay_sheet) :
                              /\ ext'.delay_sheet[m].index = ext.delay_sheet[n].index
                              /\ ~IsNull(ext'.delay_sheet[m].updated_eta)]_vars

\* a stage of run is about to work on an empty result of the stages before
\* it: no line of the carrier, no resolved location, no planned query, only
\* empty responses, no parsed record
EmptyInput ==
    \/ pc.stage = "get_location_id" /\ ext.delay_sheet = <<>>
    \/ pc.stage = "prepare" /\ \A n \in DOMAIN ext.port_id : ext.port_id[n] = None
    \/ pc.stage = "call_api" /\ ext.reduced_df = <<>>
    \/ pc.stage = "extract"
          /\ \A n \in 1..Len(ext.response_jsons) : ext.response_jsons[n].kind = "empty"
    \/ pc.stage = "update" /\ ext.response_df = <<>>

\* C19 (as stated): for every carrier, a stage that finds the result of the
\* earlier stages empty raises nothing and hands over to the next stage;
\* the merge of a carrier without parsed records leaves the master table
\* as it was and the run goes on to the next carrier.
C19_EmptyInputIsNoError ==
    [][(InRun(pc) /\ EmptyInput /\ pc' # pc)
         => /\ pc'.stage # "crashed"
            /\ pc.stage = "update"
                  => main_delay_sheet' = main_delay_sheet /\ pc' = NextCarrier]_vars

\* what the lookup is said to return for a line: null when the vessel has
\* no column or the cell is the '-' sentinel, the cell otherwise
G2Stated(line, port, col) ==
    IF line.Vessel \notin G2Vessels \/ G2Cell(Get(port), col) = Dash THEN NaT
    ELSE G2Cell(Get(port), col)

\* C20 (as stated): for G2, looking up a line's updated ETD and ETA never
\* raises; it gives null when the line's vessel has no column in the
\* schedule and when the cell holds the '-' sentinel, and otherwise the
\* cell at the row of the line's port and the column of the vessel.
C20_G2LookupNullOrCell ==
    [][(pc.stage = "run_g2" /\ config.run["G2"] /\ pc' # pc)
         => /\ pc'.stage # "crashed"
            /\ \A n \in 1..Len(ext'.delay_sheet) :
                  LET line == ext'.delay_sheet[n]
                  IN /\ line.updated_etd = G2Stated(line, line.pol, "etd")
                     /\ line.updated_eta = G2Stated(line, line.pod, "eta")]_vars

\* the schedule requests of this run that were answered (did not raise)
Answered == {n \in ScheduleRequests : requests[n][3] \notin {"failed", "undecodable"}}

\* C21: every schedule query that went to the network and was answered has
\* been followed, within the same loop step and so before the next query,
\* by exactly one delay, and every delay lasts between
\* randomiser_lower_interval and randomiser_upper_interval seconds; a query
\* that raised is the last of its run.
C21_DelayAfterEveryFetch ==
    /\ sleeps.calls = Cardinality(Answered)
    /\ sleeps.calls > 0 =>
          /\ config.randomiser_lower_interval <= sleeps.seconds
          /\ sleeps.seconds <= config.randomiser_upper_interval
    /\ \A n \in ScheduleRequests \ Answered : n = Len(requests)

\* a run has fetched at least two schedule responses from the network, one
\* of them empty, and its last delay was the longest the interval allows
C21_Witness ==
    /\ sleeps.calls >= 2 /\ sleeps.seconds = config.randomiser_upper_interval
    /\ \E n \in Answered : requests[n][3] = "empty"

\* C29 (as stated): on every calendar date a fetch builds its query dates
\* without error: ONE's window end, day 1 of month number current + 3, is
\* a date whatever the current month, and each Hamburg window date, day 1,
\* 8, 15, 22 and 29 of the current month, is a date in every month.
C29_QueryDatesAreDates ==
    query_dates # <<>> =>
       /\ ~query_dates.raised
       /\ \A n \in 1..Len(query_dates.dates) : IsDate(query_dates.dates[n])

\* C27 (as stated): the run works in today's cache directory from its
\* start, and once output has finished the process is back in the working
\* root it was started in.
C27_BackInWorkingRoot ==
    /\ pc.stage \notin {"done", "crashed"} => cwd = TodayPath
    /\ pc.stage = "done" => cwd = "root"

\* the records of response_df with the key of a line
Hits(line) ==
    {m \in 1..Len(ext.response_df) : MergeKey(ext.response_df[m]) = MergeKey(line)}

\* C22 (as stated): after a carrier's merge every line of the carrier's
\* filtered subset appears exactly once, in order and under its own row
\* index; it carries the resolved ETD and ETA of the record whose (origin,
\* destination, vessel, voyage) equals the line's, and null resolved dates
\* when no record has that key.
C22_MergeIsLeftJoin ==
    pc.stage = "update" =>
       LET c == Carriers[pc.k]
           lines == DelaySheet(c, clean_delay_sheet)
       IN /\ Len(ext.delay_sheet) = Len(lines)
          /\ \A n \in 1..Len(lines) :
                LET out == ext.delay_sheet[n]
                IN /\ out.index = lines[n].index
                   /\ Hits(lines[n]) = {} =>
                         IsNull(out.updated_etd) /\ IsNull(out.updated_eta)
                   /\ Hits(lines[n]) # {} =>
                         \E m \in Hits(lines[n]) :
                            /\ out.updated_etd = Convert(c, ext.response_df[m].updated_etd)
                            /\ out.updated_eta = Convert(c, ext.response_df[m].updated_eta)

\* C23 (as stated): whatever sailings the responses hold, the record set an
\* extractor joins onto its lines has no two records with the same (origin,
\* destination, vessel, voyage), so a vessel and voyage quoted by several
\* sailings never makes the master-table update fail.
C23_JoinedRecordsUniqueByKey ==
    pc.stage = "update" =>
       /\ \A n, m \in 1..Len(ext.response_df) :
             n # m => MergeKey(ext.response_df[n]) # MergeKey(ext.response_df[m])
       /\ ~DuplicateIndex(ext.delay_sheet)

\* C24: no step of a carrier's pipeline before the merge writes to the
\* master table, and while the pipeline is before its merge every master
\* row of that carrier still holds the values of the clean table; so when
\* a stage before the merge raises, the master table is exactly what it
\* was when the carrier started and no row of the carrier is half updated.
C24_NothingWrittenBeforeMerge ==
    [][/\ (pc.stage = "run_g2" /\ pc'.stage = "crashed")
             => main_delay_sheet' = main_delay_sheet
       /\ (InRun(pc) /\ pc.stage # "update")
             => /\ main_delay_sheet' = main_delay_sheet
                /\ \A k \in Index :
                      Owns(Carriers[pc.k], clean_delay_sheet[k].fwd)
                         => main_delay_sheet[k] = clean_delay_sheet[k]]_vars

\* a carrier's fetch raised after an earlier carrier had merged its dates
\* into the master table, which still holds them
C24_Witness ==
    /\ pc.stage = "crashed" /\ LastFetchRaised
    /\ \E a, b \in Index :
          /\ ~IsNull(main_delay_sheet[a].updated_eta)
          /\ main_delay_sheet[b].fwd = "MSC"
          /\ main_delay_sheet[b] = clean_delay_sheet[b]

\* C25: within one run no cache key (carrier, route and, for Hamburg,
\* window) is requested from the network twice, also when the first
\* response was empty and so left no file.
C25_OneRequestPerCacheKey ==
    \A n, m \in ScheduleRequests : n # m => requests[n][2] # requests[m][2]

\* a run got an empty response for a planned query, which left no file,
\* and has gone on to issue a request for another cache key
C25_Witness ==
    \E n, m \in ScheduleRequests :
       /\ n < m /\ requests[n][3] = "empty"
       /\ requests[n][2] \notin DOMAIN files
       /\ requests[n][2][1] = requests[m][2][1]

\* C26: a merge (main_delay_sheet.update of run, and of run_g2) changes at
\* most the updated_etd and updated_eta fields of a master row: forwarding
\* agent, ports, vessel, voyage, planned dates, BOL date, the two delay-day
\* fields and the reason are the same after the merge as before it.
C26_MergeWritesOnlyUpdatedDates ==
    [][pc.stage \in {"update", "run_g2"} =>
          \A k \in Index :
             [main_delay_sheet'[k] EXCEPT
                 !.updated_etd = main_delay_sheet[k].updated_etd,
                 !.updated_eta = main_delay_sheet[k].updated_eta]
                = main_delay_sheet[k]]_vars

\* a carrier whose constructor renamed the discharge port of a line has
\* merged both dates into that line's master row
C26_Witness ==
    /\ pc.stage = "run" /\ pc.k > 1
    /\ \E k \in Index :
          /\ PodName(Carriers[pc.k - 1], clean_delay_sheet[k].pod)
                # clean_delay_sheet[k].pod
          /\ Owns(Carriers[pc.k - 1], clean_delay_sheet[k].fwd)
          /\ ~IsNull(main_delay_sheet[k].updated_etd)
          /\ ~IsNull(main_delay_sheet[k].updated_eta)
          /\ main_delay_sheet[k].pod = clean_delay_sheet[k].pod

\* C28: the clean copy is never written: it holds, at every step of a run,
\* the table as it was read, with the five new columns null; and until its
\* extract stage the lines of a carrier's extractor are the lines of the
\* clean copy with the carrier's tags, and its planned queries are computed
\* from those lines, so neither holds anything an earlier carrier merged.
C28_ExtractorsBuiltFromCleanCopy ==
    /\ \A k \in Index :
          /\ IsNull(clean_delay_sheet[k].updated_etd)
          /\ IsNull(clean_delay_sheet[k].updated_eta)
          /\ IsNull(clean_delay_sheet[k].days_etd)
          /\ IsNull(clean_delay_sheet[k].days_eta)
          /\ IsNull(clean_delay_sheet[k].reason)
    /\ pc.stage \in {"get_location_id", "prepare", "call_api"} =>
          /\ {ext.delay_sheet[n].index : n \in 1..Len(ext.delay_sheet)}
                = {k \in Index : Owns(Carriers[pc.k], clean_delay_sheet[k].fwd)}
          /\ \A n \in 1..Len(ext.delay_sheet) :
                LET line == ext.delay_sheet[n]
                    row == clean_delay_sheet[line.index]
                IN /\ <<line.fwd, line.pol, line.pod, line.Vessel, line.Voyage>>
                        = <<row.fwd, row.pol, row.pod, row.Vessel, row.Voyage>>
                   /\ <<line.etd_date, line.disport_eta, line.bol_date>>
                        = <<row.etd_date, row.disport_eta, row.bol_date>>
                   /\ IsNull(line.updated_etd) /\ IsNull(line.updated_eta)
    /\ pc.stage = "call_api" =>
          ext.reduced_df = ReducedDf(Carriers[pc.k],
                                     DelaySheet(Carriers[pc.k], clean_delay_sheet),
                                     ext.port_id)

\* a later carrier has planned its queries after an earlier carrier merged
\* a date into the master table
C28_Witness ==
    /\ pc.stage = "call_api" /\ Len(ext.reduced_df) > 0
    /\ \E k \in Index :
          /\ ~Owns(Carriers[pc.k], main_delay_sheet[k].fwd)
          /\ ~IsNull(main_delay_sheet[k].updated_etd)

\* C30: when a carrier's location table is first written it holds every
\* name looked up, the names that got no code with a null code; from then
\* on the table is kept as it is, no location lookup is issued for that
\* carrier and every schedule request of the carrier is for a route whose
\* two ends have a code in the table; whereas in a later run a planned
\* query without a cache file, as an empty response leaves it, is requested
\* again.
C30_UnresolvedPortIsPersisted ==
    [][/\ \A c \in DOMAIN port_files' \ DOMAIN port_files :
             \A n \in DOMAIN ext'.port_id :
                /\ JsonKey(n) \in DOMAIN port_files'[c]
                /\ port_files'[c][JsonKey(n)] = ext'.port_id[n]
       /\ \A c \in DOMAIN port_files :
             c \in DOMAIN port_files' /\ port_files'[c] = port_files[c]
       /\ \A n \in (Len(requests) + 1)..Len(requests') :
             /\ requests'[n][1] = "location"
                   => requests'[n][2] \notin DOMAIN port_files
             /\ (requests'[n][1] = "schedule" /\ HasLocationId(requests'[n][2][1]))
                   => Resolved(requests'[n][2])
       /\ (/\ last_run # "none"
           /\ pc.stage = "call_api" /\ i <= Len(CurrentCalls)
           /\ ~InCache(CallName))
             => /\ Len(requests') = Len(requests) + 1
                /\ requests'[Len(requests')][1] = "schedule"
                /\ requests'[Len(requests')][2] = CallName]_vars

\* a later run of the day has read a location table in which the discharge
\* port of a line has no code, has looked nothing up and has planned no
\* query for that line
C30_Witness ==
    /\ last_run # "none" /\ pc.stage = "update"
    /\ HasLocationId(Carriers[pc.k])
    /\ LocationRequests = {}
    /\ \E n \in 1..Len(ext.delay_sheet) :
          LET line == ext.delay_sheet[n]
          IN /\ line.pol_name # None /\ line.pod_name # None
             /\ line.pod_name \in DOMAIN port_files[Carriers[pc.k]]
             /\ port_files[Carriers[pc.k]][line.pod_name] = None
             /\ \A m \in 1..Len(ext.reduced_df) :
                   ext.reduced_df[m].pod_name # line.pod_name

====
